---- MODULE Spec2Model ----
(***************************************************************************)
(* Shipments backend (src/server.js): three HTTP handlers that glue a CRM  *)
(* (HubSpot: contacts, "listings" = shipment records, associations, files) *)
(* to a carrier (Royal Mail).  Every `await` on an outbound call is one    *)
(* step of the handler; the synchronous code up to the next outbound call  *)
(* belongs to the step that resumes the handler.                           *)
(* All property values are strings; "" stands for an unset / undefined /   *)
(* null property (all of them falsy in the source's tests).                *)
(***************************************************************************)
EXTENDS Integers, Sequences, FiniteSets, TLC

VARIABLES
  env,        \* process.env, read once at start-up
  clock,      \* Date.now(), in ticks: it has advanced whenever a request arrives
  listings,   \* CRM shipment records ("listings"), by id
  contacts,   \* CRM contact records, by id
  assoc,      \* CRM associations: pairs <<listing id, contact id>>
  files,      \* CRM file storage: the URLs of the uploaded files
  rm,         \* what rmCreateShipment has created so far (carrier side)
  req         \* the handler invocations, by invocation number

vars == <<env, clock, listings, contacts, assoc, files, rm, req>>

(* ------------------------------ bounds -------------------------------- *)
MaxReq == 2        \* handler invocations in one behaviour

ReqIds == 1..MaxReq
LId(i) == "L" \o ToString(i)
\* The contacts of the CRM: C1 has a full address, C2 lacks a part of it.
ContactIds == {"C1", "C2"}
ListingInputs == {"", LId(1), LId(2)}
ContactInputs == {""} \cup ContactIds

(* --------------------------- JS helpers ------------------------------- *)
\* a || b on strings
Or(a, b) == IF a # "" THEN a ELSE b

\* String.prototype.toLowerCase on the values the environment can hold
ToLowerCase(s) == IF s = "TRUE" THEN "true" ELSE IF s = "True" THEN "true" ELSE s

\* String.prototype.trim (blanks only)
RECURSIVE Trim(_)
Trim(s) ==
  IF Len(s) = 0 THEN s
  ELSE IF SubSeq(s, 1, 1) = " " THEN Trim(SubSeq(s, 2, Len(s)))
  ELSE IF SubSeq(s, Len(s), Len(s)) = " " THEN Trim(SubSeq(s, 1, Len(s) - 1))
  ELSE s

\* String.prototype.toUpperCase on the country codes used
ToUpperCase(s) == IF s = "gb" THEN "GB" ELSE s

RECURSIVE PadStart(_, _, _)
PadStart(s, n, c) == IF Len(s) >= n THEN s ELSE PadStart(c \o s, n, c)

\* Date.now() at tick t, in digits
Now(t) == "170000000000" \o ToString(t)

\* new Date().toISOString() at tick t
ToISOString(t) == "2023-11-14T22:13:20.00" \o ToString(t) \o "Z"

(* --------------------------- configuration ---------------------------- *)
HUBSPOT_TOKEN == env.HUBSPOT_TOKEN
HUBSPOT_PORTAL_ID == Or(env.HUBSPOT_PORTAL_ID, "47987553")
INBOUND_SECRET == Or(env.INBOUND_SECRET, "")
MOCK_MODE == ToLowerCase(Or(env.MOCK_MODE, "false")) = "true"
MOCK_TRACKING_STATUS == Or(env.MOCK_TRACKING_STATUS, "")
SENDER_NAME == Or(env.SENDER_NAME, "Your Company")
SENDER_LINE1 == Or(env.SENDER_LINE1, "1 Example Way")
SENDER_CITY == Or(env.SENDER_CITY, "London")
SENDER_POSTCODE == Or(env.SENDER_POSTCODE, "W1A 1AA")
SENDER_COUNTRY == Or(env.SENDER_COUNTRY, "GB")

(* ------------------------------ CRM data ------------------------------ *)
ListingFields ==
  {"shipment_id", "order_number", "shipment_status",
   "sender_name", "sender_line1", "sender_city", "sender_postcode", "sender_country_code",
   "recipient_name", "recipient_line1", "recipient_city", "recipient_postcode",
   "recipient_country_code",
   "rmg_shipment_number", "tracking_number", "tracking_url", "label_url",
   "last_event_code", "last_event_description", "last_event_location", "last_event_time",
   "expected_delivery_date", "delivered_datetime"}

ContactFields ==
  {"firstname", "lastname", "address", "city", "zip", "country",
   "abc_create_label_now", "abc_label_created", "abc_label_created_at",
   "abc_tracking_number", "abc_shipment_status"}

\* An object with the given properties set and every other field unset.
Obj(fields, props) == [k \in fields |-> IF k \in DOMAIN props THEN props[k] ELSE ""]

\* A faulty variant: the status is left out of what is written.
PatchMissesField(rec, props) ==
  [k \in DOMAIN rec |-> IF k \in DOMAIN props /\ k # "shipment_status" THEN props[k] ELSE rec[k]]

\* PATCH /crm/v3/objects/<type>/<id> { properties }: the named properties are
\* overwritten, the others are kept.
patchHubSpotObject(rec, props) == [k \in DOMAIN rec |-> IF k \in DOMAIN props THEN props[k] ELSE rec[k]]

TrackingUrl(trackingNumber) ==
  "https://www.royalmail.com/track-your-item#/tracking-results/" \o trackingNumber

\* A shipment record made outside this service, no label yet.
OpenListing ==
  Obj(ListingFields,
      [shipment_id |-> "S-1", order_number |-> "ORD-1", shipment_status |-> "Created",
       recipient_name |-> "Ann Lee", recipient_line1 |-> "2 High St",
       recipient_city |-> "Leeds", recipient_postcode |-> "LS1 1AA"])

\* A shipment record whose label was made earlier.
FulfilledListing ==
  patchHubSpotObject(OpenListing,
      [rmg_shipment_number |-> "RMG-OLD", tracking_number |-> "TN-OLD",
       tracking_url |-> TrackingUrl("TN-OLD"),
       label_url |-> "https://files.example/old.pdf",
       shipment_status |-> "Label Printed"])

InitialListings == {OpenListing, FulfilledListing}

FullContact ==
  Obj(ContactFields,
      [firstname |-> "Bo", lastname |-> "Ek", address |-> "3 Low Rd",
       city |-> "York", zip |-> "YO1 1AA"])

PartContacts ==
  {[FullContact EXCEPT !.address = ""],
   [FullContact EXCEPT !.zip = ""],
   [FullContact EXCEPT !.address = "", !.zip = ""]}

(* ----------------------------- invocations ---------------------------- *)
NoProps == [k \in {} |-> ""]
NoBody == [type |-> "none"]

IdleReq ==
  [kind |-> "none", pc |-> "idle", id |-> "", p |-> NoProps, listingId |-> "",
   sender |-> NoProps, recipient |-> NoProps, reference |-> "", filename |-> "",
   shipmentNumber |-> "", trackingNumber |-> "", rmToken |-> "",
   labelBuffer |-> NoProps, labelUrl |-> "", shipmentProps |-> NoProps, sentAt |-> 0,
   results |-> <<>>, i |-> 0, update |-> NoProps, pending |-> {}, updated |-> 0,
   status |-> 0, body |-> NoBody, effects |-> <<>>]

\* A faulty variant: the error is answered and the handler goes on.
FailGoesOn(q, error) ==
  [q EXCEPT !.status = 500, !.body = [type |-> "json", ok |-> FALSE, error |-> error]]

\* The handler's catch block: status 500, { ok: false, error }.
Fail(q, error) ==
  [q EXCEPT !.pc = "done", !.status = 500,
            !.body = [type |-> "json", ok |-> FALSE, error |-> error]]

\* requireEnv(): the error it throws, "" when it returns.
requireEnv == IF HUBSPOT_TOKEN = "" THEN "HUBSPOT_TOKEN is required" ELSE ""

\* The environments considered: nothing set but the CRM token, and that one
\* with one more setting changed.
BaseEnv ==
  [HUBSPOT_TOKEN |-> "tok", HUBSPOT_PORTAL_ID |-> "", INBOUND_SECRET |-> "",
   MOCK_MODE |-> "", MOCK_TRACKING_STATUS |-> "",
   SENDER_NAME |-> "", SENDER_LINE1 |-> "", SENDER_CITY |-> "",
   SENDER_POSTCODE |-> "", SENDER_COUNTRY |-> ""]

Envs ==
  {BaseEnv,
   [BaseEnv EXCEPT !.HUBSPOT_TOKEN = ""],
   [BaseEnv EXCEPT !.HUBSPOT_PORTAL_ID = "123"],
   [BaseEnv EXCEPT !.MOCK_MODE = "true"],
   [BaseEnv EXCEPT !.MOCK_MODE = "TRUE", !.MOCK_TRACKING_STATUS = "In Transit"]}

Init ==
  /\ env \in Envs
  /\ clock = 0
  /\ listings \in [{LId(1)} -> InitialListings]
  /\ \E c \in PartContacts : contacts = [C1 |-> FullContact, C2 |-> c]
  /\ assoc = {}
  /\ files = {}
  /\ rm = {}
  /\ req = [r \in ReqIds |-> IdleReq]

(* ------------------------ carrier client ------------------------------ *)
\* Math.floor(Math.random() * 1e10): the values drawn here.
RandomDraws == {7, 1234567890}

\* A faulty variant: the number is not padded.
MockTrackingNumberUnpadded(n) == "RM" \o ToString(n)

MockTrackingNumber(n) == "RM" \o PadStart(ToString(n), 10, "0")

\* What rmCreateShipment of invocation r returns in MOCK_MODE at time t with
\* random draw n.
MockShipment(t, n) ==
  [shipmentNumber |-> "MOCK-" \o Now(t), trackingNumber |-> MockTrackingNumber(n),
   rmToken |-> ""]

\* What the carrier answers to POST /shipping/v2/domestic of invocation r: a
\* shipment number and a tracking number it has not issued before.
CarrierShipment(r) ==
  [shipmentNumber |-> "RMG-" \o ToString(r), trackingNumber |-> "TN-" \o ToString(r),
   rmToken |-> "rmtok"]

\* A faulty variant: the configured sender is sent whatever the record holds.
CreateBodyConfiguredSender(q) ==
  [serviceCode |-> "TR48",
   sender |-> [name |-> SENDER_NAME, addressLine1 |-> SENDER_LINE1,
               postcode |-> SENDER_POSTCODE, countryCode |-> SENDER_COUNTRY],
   recipient |-> q.recipient, weightInGrams |-> 100, customerReference |-> q.reference]

\* The body of POST /shipping/v2/domestic.
CreateBody(q) ==
  [serviceCode |-> "TR48", sender |-> q.sender, recipient |-> q.recipient,
   weightInGrams |-> 100, customerReference |-> q.reference]

\* A faulty variant: the shipment is requested without a token request.
CallSkipsToken(q) == [q EXCEPT !.pc = IF MOCK_MODE THEN "mockCreate" ELSE "create"]

\* The synchronous start of rmCreateShipment: in MOCK_MODE nothing is sent,
\* otherwise the token request goes out.
CallRmCreateShipment(q) == [q EXCEPT !.pc = IF MOCK_MODE THEN "mockCreate" ELSE "token"]

\* makeMockLabelPDF: the lines of the placeholder document.
makeMockLabelPDF(trackingNumber, recipientName, recipientPostcode) ==
  [title |-> "ROYAL MAIL - MOCK LABEL", tracking |-> trackingNumber,
   recipient |-> Or(recipientName, "N/A"), postcode |-> Or(recipientPostcode, "N/A")]

\* shipmentNumber?.replace("MOCK-", "RM") || "RM0000000000"
MockLabelTracking(shipmentNumber) ==
  IF shipmentNumber = "" THEN "RM0000000000"
  ELSE IF Len(shipmentNumber) >= 5 /\ SubSeq(shipmentNumber, 1, 5) = "MOCK-"
       THEN "RM" \o SubSeq(shipmentNumber, 6, Len(shipmentNumber))
       ELSE shipmentNumber

\* The name the label file is uploaded under.
Filename(q) ==
  IF q.kind = "create"
  THEN Or(Or(q.p.order_number, q.p.shipment_id), q.shipmentNumber) \o ".pdf"
  ELSE "CT-" \o q.id \o ".pdf"

Eff(q, e) == [q EXCEPT !.effects = Append(@, e)]

\* POST /shipping/v2/token answers (or fails).
RmToken(r, ok) ==
  /\ req[r].pc = "token"
  /\ req' = [req EXCEPT ![r] =
       IF ok THEN [Eff(@, "rm.token") EXCEPT !.pc = "create", !.rmToken = "rmtok"]
       ELSE Fail(@, "token")]
  /\ UNCHANGED <<env, clock, listings, contacts, assoc, files, rm>>

\* A faulty variant: the shipment number is saved on the record as soon as the
\* carrier has answered.
RmCreateSavesNumber(r, ok) ==
  /\ req[r].pc = "create"
  /\ IF ok
     THEN LET s == CarrierShipment(r) IN
          /\ rm' = rm \cup {[by |-> r, listingId |-> req[r].listingId, mock |-> FALSE,
                             shipmentNumber |-> s.shipmentNumber,
                             trackingNumber |-> s.trackingNumber,
                             body |-> CreateBody(req[r])]}
          /\ listings' = [listings EXCEPT ![req[r].listingId] =
                            [@ EXCEPT !.rmg_shipment_number = s.shipmentNumber]]
          /\ req' = [req EXCEPT ![r] =
               [Eff(@, "rm.create") EXCEPT !.pc = "label",
                   !.shipmentNumber = s.shipmentNumber,
                   !.trackingNumber = s.trackingNumber]]
     ELSE /\ rm' = rm
          /\ listings' = listings
          /\ req' = [req EXCEPT ![r] = Fail(@, "create")]
  /\ UNCHANGED <<env, clock, contacts, assoc, files>>

\* A faulty variant: the carrier makes no second shipment for a record.
RmCreateOncePerRecord(r, ok) ==
  /\ req[r].pc = "create"
  /\ IF ok
     THEN LET s == CarrierShipment(r) IN
          /\ rm' = IF \E o \in rm : o.listingId = req[r].listingId THEN rm
                    ELSE rm \cup {[by |-> r, listingId |-> req[r].listingId, mock |-> FALSE,
                                   shipmentNumber |-> s.shipmentNumber,
                                   trackingNumber |-> s.trackingNumber,
                                   body |-> CreateBody(req[r])]}
          /\ req' = [req EXCEPT ![r] =
               [Eff(@, "rm.create") EXCEPT !.pc = "label",
                   !.shipmentNumber = s.shipmentNumber,
                   !.trackingNumber = s.trackingNumber]]
     ELSE /\ rm' = rm
          /\ req' = [req EXCEPT ![r] = Fail(@, "create")]
  /\ UNCHANGED <<env, clock, listings, contacts, assoc, files>>

\* POST /shipping/v2/domestic answers (or fails): the carrier has a new shipment.
RmCreate(r, ok) ==
  /\ req[r].pc = "create"
  /\ IF ok
     THEN LET s == CarrierShipment(r) IN
          /\ rm' = rm \cup {[by |-> r, listingId |-> req[r].listingId, mock |-> FALSE,
                             shipmentNumber |-> s.shipmentNumber,
                             trackingNumber |-> s.trackingNumber,
                             body |-> CreateBody(req[r])]}
          /\ req' = [req EXCEPT ![r] =
               [Eff(@, "rm.create") EXCEPT !.pc = "label",
                   !.shipmentNumber = s.shipmentNumber,
                   !.trackingNumber = s.trackingNumber]]
     ELSE /\ rm' = rm
          /\ req' = [req EXCEPT ![r] = Fail(@, "create")]
  /\ UNCHANGED <<env, clock, listings, contacts, assoc, files>>

\* rmCreateShipment in MOCK_MODE: numbers are made up, nothing is sent.
MockCreate(r, n) ==
  /\ req[r].pc = "mockCreate"
  /\ LET s == MockShipment(clock, n) IN
     /\ rm' = rm \cup {[by |-> r, listingId |-> req[r].listingId, mock |-> TRUE,
                        shipmentNumber |-> s.shipmentNumber,
                        trackingNumber |-> s.trackingNumber,
                        body |-> CreateBody(req[r])]}
     /\ req' = [req EXCEPT ![r] =
          [@ EXCEPT !.pc = "mockLabel", !.shipmentNumber = s.shipmentNumber,
                    !.trackingNumber = s.trackingNumber]]
  /\ UNCHANGED <<env, clock, listings, contacts, assoc, files>>

\* PUT /shipping/v2/<shipmentNumber>/label answers (or fails).
RmLabel(r, ok) ==
  /\ req[r].pc = "label"
  /\ req' = [req EXCEPT ![r] =
       IF ok THEN [Eff(@, "rm.label") EXCEPT !.pc = "upload",
                      !.labelBuffer = [pdf |-> req[r].shipmentNumber],
                      !.filename = Filename(req[r])]
       ELSE Fail(@, "label")]
  /\ UNCHANGED <<env, clock, listings, contacts, assoc, files, rm>>

\* rmGetLabelPDF in MOCK_MODE: the placeholder document.
MockLabel(r) ==
  /\ req[r].pc = "mockLabel"
  /\ req' = [req EXCEPT ![r] =
       [@ EXCEPT !.pc = "upload",
          !.labelBuffer = makeMockLabelPDF(MockLabelTracking(req[r].shipmentNumber),
                                           req[r].recipient.name,
                                           req[r].recipient.postcode),
          !.filename = Filename(req[r])]]
  /\ UNCHANGED <<env, clock, listings, contacts, assoc, files, rm>>

(* --------------------------- CRM file upload -------------------------- *)
\* The answers of POST /files/v3/files to invocation r: the file's address under
\* url, under full_url, or under neither.
UploadAnswers(r, filename) ==
  LET u == "https://files.example/" \o ToString(r) \o "/" \o filename IN
  {[stored |-> u, url |-> u, full_url |-> ""],
   [stored |-> u, url |-> "", full_url |-> u],
   [stored |-> u, url |-> "", full_url |-> ""]}

\* data?.url || data?.full_url || ""
uploadToHubSpotFiles(data) == Or(Or(data.url, data.full_url), "")

\* POST /files/v3/files answers (or fails).
Upload(r, ok) ==
  /\ req[r].pc = "upload"
  /\ IF ok
     THEN \E data \in UploadAnswers(r, req[r].filename) :
            /\ files' = files \cup {data.stored}
            /\ req' = [req EXCEPT ![r] =
                 [Eff(@, "crm.upload") EXCEPT !.pc = "patchListing",
                     !.labelUrl = uploadToHubSpotFiles(data)]]
     ELSE /\ files' = files
          /\ req' = [req EXCEPT ![r] = Fail(@, "upload")]
  /\ UNCHANGED <<env, clock, listings, contacts, assoc, rm>>

\* A faulty variant: the carrier shipment number is not written.
LabelPatchNoNumber(q) ==
  [tracking_number |-> q.trackingNumber,
   tracking_url |-> TrackingUrl(q.trackingNumber),
   label_url |-> q.labelUrl,
   shipment_status |-> "Label Printed"]

\* The properties both label handlers patch onto the shipment record.
LabelPatch(q) ==
  [rmg_shipment_number |-> q.shipmentNumber,
   tracking_number |-> q.trackingNumber,
   tracking_url |-> TrackingUrl(q.trackingNumber),
   label_url |-> q.labelUrl,
   shipment_status |-> "Label Printed"]

(* ---------------------------- /labels/create -------------------------- *)
CreateProps ==
  {"shipment_id", "order_number", "shipment_status",
   "sender_name", "sender_line1", "sender_city", "sender_postcode", "sender_country_code",
   "recipient_name", "recipient_line1", "recipient_city", "recipient_postcode",
   "recipient_country_code", "rmg_shipment_number", "tracking_number", "label_url"}

ListingRecordUrl(listingId) ==
  IF HUBSPOT_PORTAL_ID # ""
  THEN "https://app.hubspot.com/contacts/" \o HUBSPOT_PORTAL_ID \o "/record/LISTINGS/" \o listingId
  ELSE ""

\* The response of /labels/create when the record already has a carrier
\* shipment number.
AlreadyCreatedBody(listingId, p) ==
  IF ListingRecordUrl(listingId) # ""
  THEN [type |-> "html", text |-> "Shipment already created.",
        location |-> ListingRecordUrl(listingId)]
  ELSE [type |-> "json", ok |-> TRUE, message |-> "already created",
        trackingNumber |-> p.tracking_number, labelUrl |-> p.label_url]

\* The response of /labels/create after the shipment record was patched.
LabelCreatedBody(q) ==
  IF ListingRecordUrl(q.listingId) # ""
  THEN [type |-> "html", text |-> "Label created.",
        location |-> ListingRecordUrl(q.listingId)]
  ELSE [type |-> "json", ok |-> TRUE, trackingNumber |-> q.trackingNumber,
        labelUrl |-> q.labelUrl]

\* A faulty variant: the listingId is checked before the configuration.
LabelsCreateStartIdFirst(r, listingId) ==
  /\ req[r].pc = "idle"
  /\ req' = [req EXCEPT ![r] =
       LET q == [@ EXCEPT !.kind = "create", !.id = listingId] IN
       IF listingId = ""
       THEN [q EXCEPT !.pc = "done", !.status = 400,
                      !.body = [type |-> "json", ok |-> FALSE, error |-> "missing listingId"]]
       ELSE IF requireEnv # "" THEN Fail(q, requireEnv)
       ELSE [q EXCEPT !.pc = "getListing", !.listingId = listingId]]
  /\ clock' = clock + 1
  /\ UNCHANGED <<env, listings, contacts, assoc, files, rm>>

\* The handler up to its first await: requireEnv, the listingId check, then
\* GET /crm/v3/objects/listings/<listingId> goes out.
LabelsCreateStart(r, listingId) ==
  /\ req[r].pc = "idle"
  /\ req' = [req EXCEPT ![r] =
       LET q == [@ EXCEPT !.kind = "create", !.id = listingId] IN
       IF requireEnv # "" THEN Fail(q, requireEnv)
       ELSE IF listingId = ""
       THEN [q EXCEPT !.pc = "done", !.status = 400,
                      !.body = [type |-> "json", ok |-> FALSE, error |-> "missing listingId"]]
       ELSE [q EXCEPT !.pc = "getListing", !.listingId = listingId]]
  /\ clock' = clock + 1
  /\ UNCHANGED <<env, listings, contacts, assoc, files, rm>>

\* Faulty variants: the test never holds; the test always holds.
AlreadyCreatedNever(p) == FALSE
AlreadyCreatedAlways(p) == TRUE

\* The idempotency test on the fetched properties.
AlreadyCreated(p) == p.rmg_shipment_number # ""

\* The GET answers (or fails; it fails when there is no such record): either
\* the early return, or the addresses are assembled and rmCreateShipment starts.
LabelsCreateGot(r, ok) ==
  /\ req[r].pc = "getListing"
  /\ req' = [req EXCEPT ![r] =
       IF ~ok \/ @.listingId \notin DOMAIN listings THEN Fail(@, "get listing")
       ELSE
         LET p == [k \in CreateProps |-> listings[@.listingId][k]]
             q == [Eff(@, "crm.get.listing") EXCEPT !.p = p]
         IN
         IF AlreadyCreated(p)
         THEN [q EXCEPT !.pc = "done", !.status = 200,
                        !.body = AlreadyCreatedBody(q.listingId, p)]
         ELSE CallRmCreateShipment(
                [q EXCEPT
                   !.sender = [name |-> Or(p.sender_name, SENDER_NAME),
                               addressLine1 |-> Or(p.sender_line1, SENDER_LINE1),
                               postcode |-> Or(p.sender_postcode, SENDER_POSTCODE),
                               countryCode |-> Or(p.sender_country_code, SENDER_COUNTRY)],
                   !.recipient = [name |-> p.recipient_name,
                                  addressLine1 |-> p.recipient_line1,
                                  postcode |-> p.recipient_postcode,
                                  countryCode |-> Or(p.recipient_country_code, "GB")],
                   !.reference = Or(Or(p.order_number, p.shipment_id), q.listingId)])]
  /\ UNCHANGED <<env, clock, listings, contacts, assoc, files, rm>>

\* PATCH of the shipment record answers (or fails).  /labels/create then
\* responds; /labels/create-from-contact goes on to patch the contact.
PatchListing(r, ok) ==
  /\ req[r].pc = "patchListing"
  /\ IF ok /\ req[r].listingId \in DOMAIN listings
     THEN /\ listings' = [listings EXCEPT ![req[r].listingId] =
                            patchHubSpotObject(@, LabelPatch(req[r]))]
          /\ req' = [req EXCEPT ![r] =
               LET q == Eff(@, "crm.patch.listing") IN
               IF q.kind = "create"
               THEN [q EXCEPT !.pc = "done", !.status = 200, !.body = LabelCreatedBody(q)]
               ELSE [q EXCEPT !.pc = "patchContact", !.sentAt = clock]]
     ELSE /\ listings' = listings
          /\ req' = [req EXCEPT ![r] = Fail(@, "patch listing")]
  /\ UNCHANGED <<env, clock, contacts, assoc, files, rm>>

(* ----------------------- /labels/create-from-contact ------------------ *)
ContactProps ==
  {"firstname", "lastname", "address", "city", "zip", "country",
   "abc_create_label_now", "abc_label_created", "abc_tracking_number",
   "abc_shipment_status"}

ContactUrl(contactId) ==
  IF HUBSPOT_PORTAL_ID # ""
  THEN "https://app.hubspot.com/contacts/" \o HUBSPOT_PORTAL_ID \o "/record/0-1/" \o contactId
  ELSE ""

\* The recipient built from the contact's properties.
Recipient(cp) ==
  [name |-> Or(Trim(Or(cp.firstname, "") \o " " \o Or(cp.lastname, "")), "Recipient"),
   line1 |-> cp.address,
   city |-> cp.city,
   postcode |-> cp.zip,
   country |-> ToUpperCase(Or(cp.country, "GB"))]

\* A faulty variant: only a recipient lacking both is turned away.
MissingAddressBoth(recipient) == recipient.line1 = "" /\ recipient.postcode = ""

\* The required-field test on the recipient.
MissingAddress(recipient) == recipient.line1 = "" \/ recipient.postcode = ""

\* The properties of the shipment record the handler creates at tick t.
ShipmentProps(contactId, recipient, t) ==
  [shipment_id |-> "CT-" \o contactId \o "-" \o Now(t),
   order_number |-> "CT-" \o contactId,
   sender_name |-> SENDER_NAME,
   sender_line1 |-> SENDER_LINE1,
   sender_city |-> SENDER_CITY,
   sender_postcode |-> SENDER_POSTCODE,
   sender_country_code |-> SENDER_COUNTRY,
   recipient_name |-> recipient.name,
   recipient_line1 |-> recipient.line1,
   recipient_city |-> recipient.city,
   recipient_postcode |-> recipient.postcode,
   recipient_country_code |-> recipient.country,
   shipment_status |-> "Created"]

\* The handler up to its first await: requireEnv, the contactId check, then
\* GET /crm/v3/objects/contacts/<contactId> goes out.
FromContactStart(r, contactId) ==
  /\ req[r].pc = "idle"
  /\ req' = [req EXCEPT ![r] =
       LET q == [@ EXCEPT !.kind = "fromContact", !.id = contactId] IN
       IF requireEnv # "" THEN Fail(q, requireEnv)
       ELSE IF contactId = ""
       THEN [q EXCEPT !.pc = "done", !.status = 400,
                      !.body = [type |-> "json", ok |-> FALSE, error |-> "missing contactId"]]
       ELSE [q EXCEPT !.pc = "getContact"]]
  /\ clock' = clock + 1
  /\ UNCHANGED <<env, listings, contacts, assoc, files, rm>>

\* The GET answers (or fails): the address check, then the trigger patch goes out.
FromContactGot(r, ok) ==
  /\ req[r].pc = "getContact"
  /\ req' = [req EXCEPT ![r] =
       IF ~ok \/ @.id \notin DOMAIN contacts THEN Fail(@, "get contact")
       ELSE
         LET cp == [k \in ContactProps |-> contacts[@.id][k]]
             q == [Eff(@, "crm.get.contact") EXCEPT !.p = cp]
         IN
         IF MissingAddress(Recipient(cp))
         THEN [q EXCEPT !.pc = "done", !.status = 400,
                  !.body = [type |-> "text",
                            text |-> "Contact is missing address line1 or postcode."]]
         ELSE [q EXCEPT !.pc = "patchTrigger"]]
  /\ UNCHANGED <<env, clock, listings, contacts, assoc, files, rm>>

\* PATCH contact { abc_create_label_now: "true" } answers (or fails).
FromContactTrigger(r, ok) ==
  /\ req[r].pc = "patchTrigger"
  /\ IF ok
     THEN /\ contacts' = [contacts EXCEPT ![req[r].id] =
                            patchHubSpotObject(@, [abc_create_label_now |-> "true"])]
          /\ req' = [req EXCEPT ![r] =
               [Eff(@, "crm.patch.trigger") EXCEPT !.pc = "createListing",
                   !.shipmentProps = ShipmentProps(req[r].id, Recipient(req[r].p), clock)]]
     ELSE /\ contacts' = contacts
          /\ req' = [req EXCEPT ![r] = Fail(@, "patch trigger")]
  /\ UNCHANGED <<env, clock, listings, assoc, files, rm>>

\* POST /crm/v3/objects/listings answers (or fails): the CRM has a new
\* shipment record and names its id.
FromContactCreated(r, ok) ==
  /\ req[r].pc = "createListing"
  /\ IF ok
     THEN LET id == LId(Cardinality(DOMAIN listings) + 1) IN
          /\ listings' = [k \in DOMAIN listings \cup {id} |->
                            IF k = id THEN Obj(ListingFields, req[r].shipmentProps)
                            ELSE listings[k]]
          /\ req' = [req EXCEPT ![r] =
               [Eff(@, "crm.create.listing") EXCEPT !.pc = "associate", !.listingId = id]]
     ELSE /\ listings' = listings
          /\ req' = [req EXCEPT ![r] = Fail(@, "create listing")]
  /\ UNCHANGED <<env, clock, contacts, assoc, files, rm>>

\* POST /crm/v4/associations/listings/contacts/batch/create answers (or
\* fails); then rmCreateShipment starts.
FromContactAssociated(r, ok) ==
  /\ req[r].pc = "associate"
  /\ IF ok
     THEN /\ assoc' = assoc \cup {<<req[r].listingId, req[r].id>>}
          /\ req' = [req EXCEPT ![r] =
               LET rc == Recipient(@.p) IN
               CallRmCreateShipment(
                 [Eff(@, "crm.associate") EXCEPT
                    !.sender = [name |-> SENDER_NAME, addressLine1 |-> SENDER_LINE1,
                                postcode |-> SENDER_POSTCODE, countryCode |-> SENDER_COUNTRY],
                    !.recipient = [name |-> rc.name, addressLine1 |-> rc.line1,
                                   postcode |-> rc.postcode, countryCode |-> rc.country],
                    !.reference = "CT-" \o req[r].id])]
     ELSE /\ assoc' = assoc
          /\ req' = [req EXCEPT ![r] = Fail(@, "associate")]
  /\ UNCHANGED <<env, clock, listings, contacts, files, rm>>

\* A faulty variant: the shipment number is mirrored as the tracking number.
ContactPatchShipmentNumber(q, t) ==
  [abc_label_created |-> "true",
   abc_label_created_at |-> ToISOString(t),
   abc_tracking_number |-> q.shipmentNumber,
   abc_shipment_status |-> "Label Printed"]

\* The properties mirrored onto the contact at tick t.
ContactPatch(q, t) ==
  [abc_label_created |-> "true",
   abc_label_created_at |-> ToISOString(t),
   abc_tracking_number |-> q.trackingNumber,
   abc_shipment_status |-> "Label Printed"]

\* The response of /labels/create-from-contact after both patches.
FromContactBody(q) ==
  IF ContactUrl(q.id) # ""
  THEN [type |-> "html", text |-> "Label created.", location |-> ContactUrl(q.id)]
  ELSE [type |-> "json", ok |-> TRUE, listingId |-> q.listingId,
        trackingNumber |-> q.trackingNumber, labelUrl |-> q.labelUrl]

\* PATCH of the contact answers (or fails); the handler responds.  The patch
\* carries the time at which it was sent, when the shipment patch returned.
FromContactPatched(r, ok) ==
  /\ req[r].pc = "patchContact"
  /\ IF ok
     THEN /\ contacts' = [contacts EXCEPT ![req[r].id] =
                            patchHubSpotObject(@, ContactPatch(req[r],  req[r].sentAt))]
          /\ req' = [req EXCEPT ![r] =
               LET q == Eff(@, "crm.patch.contact") IN
               [q EXCEPT !.pc = "done", !.status = 200, !.body = FromContactBody(q)]]
     ELSE /\ contacts' = contacts
          /\ req' = [req EXCEPT ![r] = Fail(@, "patch contact")]
  /\ UNCHANGED <<env, clock, listings, assoc, files, rm>>

(* ------------------------------ /tracking/sync ------------------------ *)
\* A faulty variant: a request without the header is let through.
checkSecretAbsentPasses(got) == INBOUND_SECRET = "" \/ got = "" \/ got = INBOUND_SECRET

\* checkSecret: whether the request is let through.
checkSecret(got) == INBOUND_SECRET = "" \/ got = INBOUND_SECRET

\* rmGetTracking at tick t: the tracking result, or NoProps for null.
rmGetTracking(trackingNumber, t) ==
  IF MOCK_MODE
  THEN IF MOCK_TRACKING_STATUS = "" THEN NoProps
       ELSE [status |-> MOCK_TRACKING_STATUS,
             lastEvent |-> [code |-> "MOCK", description |-> "Mock tracking update",
                            location |-> "Test Hub", time |-> ToISOString(t)],
             eta |-> ""]
  ELSE NoProps

\* A faulty variant: the time of the last event is taken for the delivery time
\* whatever the status.
mapTrackingAlwaysDelivered(t) ==
  (IF t.status # "" THEN [shipment_status |-> t.status] ELSE NoProps)
  @@ (IF t.lastEvent # NoProps
      THEN [last_event_code |-> t.lastEvent.code,
            last_event_description |-> t.lastEvent.description,
            last_event_location |-> t.lastEvent.location,
            last_event_time |-> t.lastEvent.time]
      ELSE NoProps)
  @@ (IF t.eta # "" THEN [expected_delivery_date |-> t.eta] ELSE NoProps)
  @@ (IF t.lastEvent # NoProps /\ t.lastEvent.time # ""
      THEN [delivered_datetime |-> t.lastEvent.time] ELSE NoProps)

\* mapTrackingToProperties; t.lastEvent is NoProps when the result has none.
mapTrackingToProperties(t) ==
  (IF t.status # "" THEN [shipment_status |-> t.status] ELSE NoProps)
  @@ (IF t.lastEvent # NoProps
      THEN [last_event_code |-> t.lastEvent.code,
            last_event_description |-> t.lastEvent.description,
            last_event_location |-> t.lastEvent.location,
            last_event_time |-> t.lastEvent.time]
      ELSE NoProps)
  @@ (IF t.eta # "" THEN [expected_delivery_date |-> t.eta] ELSE NoProps)
  @@ (IF t.status = "Delivered" /\ t.lastEvent # NoProps /\ t.lastEvent.time # ""
      THEN [delivered_datetime |-> t.lastEvent.time] ELSE NoProps)

\* The search: the records whose status is neither Delivered nor Cancelled, in
\* the order of their ids, at most `limit` of them, with the two properties asked for.
SearchFrom(n, limit) ==
  LET found == {m \in n..Cardinality(DOMAIN listings) :
                  listings[LId(m)].shipment_status \notin {"Delivered", "Cancelled"}}
      \* the k-th of them
      at(k) == CHOOSE m \in found : Cardinality({o \in found : o <= m}) = k
      len == IF Cardinality(found) < limit THEN Cardinality(found) ELSE limit
  IN [k \in 1..len |->
        [id |-> LId(at(k)), tracking_number |-> listings[LId(at(k))].tracking_number,
         shipment_status |-> listings[LId(at(k))].shipment_status]]

SearchLimit == 100

\* A faulty variant: a record without a tracking number ends the run in an error.
SyncLoopFailsOnSkip(q, i, t) ==
  LET tr(k) == rmGetTracking(q.results[k].tracking_number, t)
      stops == {k \in i..Len(q.results) :
                  q.results[k].tracking_number = "" \/ tr(k) # NoProps}
  IN IF stops = {}
     THEN [q EXCEPT !.pc = "done", !.i = Len(q.results) + 1, !.status = 200,
                    !.body = [type |-> "json", ok |-> TRUE, scanned |-> Len(q.results),
                              updated |-> q.updated]]
     ELSE LET k == CHOOSE m \in stops : \A o \in stops : m <= o
          IN IF q.results[k].tracking_number = ""
             THEN Fail([q EXCEPT !.i = k], "no tracking number")
             ELSE [q EXCEPT !.pc = "syncPatch", !.i = k, !.listingId = q.results[k].id,
                            !.update = mapTrackingToProperties(tr(k))]

\* The for loop from record i on, up to the next outbound call or the response:
\* records without a tracking number, without tracking data or with an empty
\* update are passed over.
SyncLoop(q, i, t) ==
  LET tr(k) == rmGetTracking(q.results[k].tracking_number, t)
      passed(k) == \/ q.results[k].tracking_number = ""
                   \/ tr(k) = NoProps
                   \/ mapTrackingToProperties(tr(k)) = NoProps
      stops == {k \in i..Len(q.results) : ~passed(k)}
  IN IF stops = {}
     THEN [q EXCEPT !.pc = "done", !.i = Len(q.results) + 1, !.status = 200,
                    !.body = [type |-> "json", ok |-> TRUE, scanned |-> Len(q.results),
                              updated |-> q.updated]]
     ELSE LET k == CHOOSE m \in stops : \A o \in stops : m <= o
          IN [q EXCEPT !.pc = "syncPatch", !.i = k, !.listingId = q.results[k].id,
                       !.update = mapTrackingToProperties(tr(k))]

\* checkSecret, requireEnv, then the search goes out.
SyncStart(r, got) ==
  /\ req[r].pc = "idle"
  /\ req' = [req EXCEPT ![r] =
       LET q == [@ EXCEPT !.kind = "sync", !.id = got] IN
       IF ~checkSecret(got)
       THEN [q EXCEPT !.pc = "done", !.status = 401,
                      !.body = [type |-> "json", ok |-> FALSE, error |-> "unauthorized"]]
       ELSE IF requireEnv # "" THEN Fail(q, requireEnv)
       ELSE [q EXCEPT !.pc = "search"]]
  /\ clock' = clock + 1
  /\ UNCHANGED <<env, listings, contacts, assoc, files, rm>>

\* POST /crm/v3/objects/listings/search answers (or fails); the loop starts.
SyncSearched(r, ok) ==
  /\ req[r].pc = "search"
  /\ req' = [req EXCEPT ![r] =
       IF ok
       THEN SyncLoop([Eff(@, "crm.search") EXCEPT !.results = SearchFrom(1, SearchLimit)],
                     1, clock)
       ELSE Fail(@, "search")]
  /\ UNCHANGED <<env, clock, listings, contacts, assoc, files, rm>>

\* A faulty variant: a failed shipment patch is passed over and the loop goes on.
SyncPatchedGoesOn(r, ok) ==
  /\ req[r].pc = "syncPatch"
  /\ IF ok
     THEN /\ listings' = [listings EXCEPT ![req[r].listingId] =
                            patchHubSpotObject(@, req[r].update)]
          /\ req' = [req EXCEPT ![r] = [Eff(@, "crm.patch.listing") EXCEPT !.pc = "syncAssoc"]]
     ELSE /\ listings' = listings
          /\ req' = [req EXCEPT ![r] = SyncLoop(@, @.i + 1, clock)]
  /\ UNCHANGED <<env, clock, contacts, assoc, files, rm>>

\* PATCH of the shipment record answers (or fails); the association lookup goes out.
SyncPatched(r, ok) ==
  /\ req[r].pc = "syncPatch"
  /\ IF ok
     THEN /\ listings' = [listings EXCEPT ![req[r].listingId] =
                            patchHubSpotObject(@, req[r].update)]
          /\ req' = [req EXCEPT ![r] = [Eff(@, "crm.patch.listing") EXCEPT !.pc = "syncAssoc"]]
     ELSE /\ listings' = listings
          /\ req' = [req EXCEPT ![r] = Fail(@, "patch listing")]
  /\ UNCHANGED <<env, clock, contacts, assoc, files, rm>>

\* getAssociations: the contacts of a shipment record.
getAssociations(id) == {c \in DOMAIN contacts : <<id, c>> \in assoc}

\* A faulty variant: the status is mirrored also when the update has none.
ContactUpdateUntested(update) ==
  [abc_shipment_status |-> IF "shipment_status" \in DOMAIN update
                           THEN update.shipment_status ELSE ""]

\* The status mirrored onto the contacts.
ContactUpdate(update) ==
  IF "shipment_status" \in DOMAIN update /\ update.shipment_status # ""
  THEN [abc_shipment_status |-> update.shipment_status]
  ELSE NoProps

\* A faulty variant: a record with nothing to mirror is not counted.
SyncAssociationsCountsMirrored(r, ok) ==
  /\ req[r].pc = "syncAssoc"
  /\ req' = [req EXCEPT ![r] =
       IF ~ok THEN Fail(@, "associations")
       ELSE LET q == Eff(@, "crm.get.associations") IN
            IF getAssociations(q.listingId) # {} /\ ContactUpdate(q.update) # NoProps
            THEN [q EXCEPT !.pc = "syncContacts", !.pending = getAssociations(q.listingId)]
            ELSE SyncLoop(q, q.i + 1, clock)]
  /\ UNCHANGED <<env, clock, listings, contacts, assoc, files, rm>>

\* GET associations answers (or fails): one patch per contact goes out, all at
\* once; with nothing to mirror the record is counted and the loop goes on.
SyncAssociations(r, ok) ==
  /\ req[r].pc = "syncAssoc"
  /\ req' = [req EXCEPT ![r] =
       IF ~ok THEN Fail(@, "associations")
       ELSE LET q == Eff(@, "crm.get.associations") IN
            IF getAssociations(q.listingId) # {} /\ ContactUpdate(q.update) # NoProps
            THEN [q EXCEPT !.pc = "syncContacts", !.pending = getAssociations(q.listingId)]
            ELSE SyncLoop([q EXCEPT !.updated = @ + 1], q.i + 1, clock)]
  /\ UNCHANGED <<env, clock, listings, contacts, assoc, files, rm>>

\* A faulty variant: the loop goes on as soon as one contact patch has answered.
SyncContactPatchedFirst(r, c, ok) ==
  /\ c \in req[r].pending
  /\ contacts' = IF ok THEN [contacts EXCEPT ![c] =
                               patchHubSpotObject(@, ContactUpdate(req[r].update))]
                 ELSE contacts
  /\ req' = [req EXCEPT ![r] =
       LET q == [@ EXCEPT !.pending = @ \ {c}] IN
       IF q.pc # "syncContacts" THEN q
       ELSE IF ~ok THEN Fail(q, "patch contact")
       ELSE SyncLoop([Eff(q, "crm.patch.contacts") EXCEPT !.updated = @ + 1], q.i + 1, clock)]
  /\ UNCHANGED <<env, clock, listings, assoc, files, rm>>

\* One of the contact patches of Promise.all answers (or fails).  The first
\* failure rejects the await, and the handler responds 500 while the other
\* patches are still under way; when all have answered the record is counted.
SyncContactPatched(r, c, ok) ==
  /\ c \in req[r].pending
  /\ contacts' = IF ok THEN [contacts EXCEPT ![c] =
                               patchHubSpotObject(@, ContactUpdate(req[r].update))]
                 ELSE contacts
  /\ req' = [req EXCEPT ![r] =
       LET q == [@ EXCEPT !.pending = @ \ {c}] IN
       IF q.pc # "syncContacts" THEN q
       ELSE IF ~ok THEN Fail(q, "patch contact")
       ELSE IF q.pending # {} THEN q
       ELSE SyncLoop([Eff(q, "crm.patch.contacts") EXCEPT !.updated = @ + 1], q.i + 1, clock)]
  /\ UNCHANGED <<env, clock, listings, assoc, files, rm>>

(* ------------------------------- behaviours --------------------------- *)
Secrets == {"", "s3cret"}

\* Invocations are numbered in the order in which they arrive.
Arrives(r) == req[r].pc = "idle" /\ \A o \in ReqIds : o < r => req[o].pc # "idle"

InFlight == {r \in ReqIds : req[r].pc \notin {"idle", "done"} \/ req[r].pending # {}}

\* A request arrives.
Starts(r) ==
  /\ Arrives(r)
  /\ \/ \E id \in ListingInputs : LabelsCreateStart(r, id)
     \/ \E id \in ContactInputs : FromContactStart(r, id)
     \/ \E got \in Secrets : SyncStart(r, got)

\* An outbound call of an invocation answers.
Steps(r) ==
  \/ \E ok \in BOOLEAN : LabelsCreateGot(r, ok)
  \/ \E ok \in BOOLEAN : FromContactGot(r, ok)
  \/ \E ok \in BOOLEAN : FromContactTrigger(r, ok)
  \/ \E ok \in BOOLEAN : FromContactCreated(r, ok)
  \/ \E ok \in BOOLEAN : FromContactAssociated(r, ok)
  \/ \E ok \in BOOLEAN : RmToken(r, ok)
  \/ \E ok \in BOOLEAN : RmCreate(r, ok)
  \/ \E n \in RandomDraws : MockCreate(r, n)
  \/ \E ok \in BOOLEAN : RmLabel(r, ok)
  \/ MockLabel(r)
  \/ \E ok \in BOOLEAN : Upload(r, ok)
  \/ \E ok \in BOOLEAN : PatchListing(r, ok)
  \/ \E ok \in BOOLEAN : FromContactPatched(r, ok)
  \/ \E ok \in BOOLEAN : SyncSearched(r, ok)
  \/ \E ok \in BOOLEAN : SyncPatched(r, ok)
  \/ \E ok \in BOOLEAN : SyncAssociations(r, ok)
  \/ \E c \in ContactIds, ok \in BOOLEAN : SyncContactPatched(r, c, ok)

\* Two requests arrive at any time: their invocations may overlap.
Next == \E r \in ReqIds : (r \in {1, 2} /\ Starts(r)) \/ Steps(r)

Spec == Init /\ [][Next]_vars

\* Each request arrives after the previous invocation has finished.
NextSeq == \E r \in ReqIds : (InFlight = {} /\ Starts(r)) \/ Steps(r)

SeqSpec == Init /\ [][NextSeq]_vars

(* ------------- the handlers with and without the CRM token ----------- *)
\* As Init, and also without the CRM token while an inbound secret is set.
TokenInit ==
  /\ env \in Envs \cup {[BaseEnv EXCEPT !.HUBSPOT_TOKEN = "", !.INBOUND_SECRET = "s3cret"]}
  /\ clock = 0
  /\ listings \in [{LId(1)} -> InitialListings]
  /\ \E c \in PartContacts : contacts = [C1 |-> FullContact, C2 |-> c]
  /\ assoc = {}
  /\ files = {}
  /\ rm = {}
  /\ req = [r \in ReqIds |-> IdleReq]

TokenSpec == TokenInit /\ [][Next]_vars

(* --------------------- behaviours of /tracking/sync ------------------- *)
\* Shipment records further along: in transit, delivered, cancelled before a
\* label was made.
InTransitListing == patchHubSpotObject(FulfilledListing, [shipment_status |-> "In Transit"])

DeliveredListing ==
  patchHubSpotObject(FulfilledListing,
      [shipment_status |-> "Delivered", delivered_datetime |-> "2023-11-01T09:00:00.000Z"])

CancelledListing == patchHubSpotObject(OpenListing, [shipment_status |-> "Cancelled"])

SyncListings ==
  {OpenListing, FulfilledListing, InTransitListing, DeliveredListing, CancelledListing}

\* The environments of the reconciler: with and without an inbound secret; real
\* mode, and simulation mode without and with a tracking status; and one
\* without the CRM token.
SyncEnvs ==
  {[BaseEnv EXCEPT !.INBOUND_SECRET = s, !.MOCK_MODE = m[1], !.MOCK_TRACKING_STATUS = m[2]] :
     s \in {"", "s3cret"},
     m \in {<<"", "">>, <<"", "In Transit">>, <<"true", "">>, <<"true", "In Transit">>,
            <<"true", "Delivered">>, <<"True", "Label Printed">>}}
  \cup {[BaseEnv EXCEPT !.INBOUND_SECRET = "s3cret", !.HUBSPOT_TOKEN = ""]}

\* The CRM as the reconciler finds it: two shipment records, the second one
\* associated with both contacts, the first one with none.
SyncInit ==
  /\ env \in SyncEnvs
  /\ clock = 0
  /\ listings \in [{LId(1), LId(2)} -> SyncListings]
  /\ contacts = [c \in ContactIds |-> FullContact]
  /\ assoc = {<<LId(2), c>> : c \in ContactIds}
  /\ files = {}
  /\ rm = {}
  /\ req = [r \in ReqIds |-> IdleReq]

\* The x-inbound-secret header: absent, the secret, something else.
Headers == Secrets \cup {"guess"}

SyncStarts(r) == Arrives(r) /\ \E got \in Headers : SyncStart(r, got)

SyncSteps(r) ==
  \/ \E ok \in BOOLEAN : SyncSearched(r, ok)
  \/ \E ok \in BOOLEAN : SyncPatched(r, ok)
  \/ \E ok \in BOOLEAN : SyncAssociations(r, ok)
  \/ \E c \in ContactIds, ok \in BOOLEAN : SyncContactPatched(r, c, ok)

\* Two /tracking/sync requests arrive at any time.
SyncNext == \E r \in ReqIds : (r \in {1, 2} /\ SyncStarts(r)) \/ SyncSteps(r)

SyncSpec == SyncInit /\ [][SyncNext]_vars

(* ----------------- label handlers on records of any status ------------ *)
\* As Init, with the one shipment record in any of the statuses.
LifeInit ==
  /\ env \in Envs
  /\ clock = 0
  /\ listings \in [{LId(1)} -> SyncListings]
  /\ \E c \in PartContacts : contacts = [C1 |-> FullContact, C2 |-> c]
  /\ assoc = {}
  /\ files = {}
  /\ rm = {}
  /\ req = [r \in ReqIds |-> IdleReq]

LifeSpec == LifeInit /\ [][NextSeq]_vars

(* ------------- /labels/create on records with a sender ---------------- *)
SenderFields ==
  {"sender_name", "sender_line1", "sender_city", "sender_postcode", "sender_country_code"}

\* A sender as a shipment record stores it.
StoredSender ==
  [sender_name |-> "Shop X", sender_line1 |-> "5 Dock Rd", sender_city |-> "Bath",
   sender_postcode |-> "BA1 1AA", sender_country_code |-> "FR"]

\* The open shipment record with any subset of the sender fields set.
SenderListings ==
  {patchHubSpotObject(OpenListing, [k \in set |-> StoredSender[k]]) : set \in SUBSET SenderFields}

\* Environments with no, some, and all of the sender defaults configured.
SenderEnvs ==
  {BaseEnv,
   [BaseEnv EXCEPT !.SENDER_NAME = "Acme Ltd", !.SENDER_POSTCODE = "HU1 1AA"],
   [BaseEnv EXCEPT !.SENDER_NAME = "Acme Ltd", !.SENDER_LINE1 = "9 Mill Ln",
                   !.SENDER_CITY = "Hull", !.SENDER_POSTCODE = "HU1 1AA",
                   !.SENDER_COUNTRY = "IE"]}

PayloadInit ==
  /\ env \in SenderEnvs
  /\ clock = 0
  /\ listings \in [{LId(1)} -> SenderListings]
  /\ contacts = [c \in ContactIds |-> FullContact]
  /\ assoc = {}
  /\ files = {}
  /\ rm = {}
  /\ req = [r \in ReqIds |-> IdleReq]

\* One /labels/create request on the record, up to the answer of the carrier.
PayloadNext ==
  \/ Arrives(1) /\ LabelsCreateStart(1, LId(1))
  \/ \E ok \in BOOLEAN : LabelsCreateGot(1, ok)
  \/ \E ok \in BOOLEAN : RmToken(1, ok)
  \/ \E ok \in BOOLEAN : RmCreate(1, ok)

PayloadSpec == PayloadInit /\ [][PayloadNext]_vars

(* ---------------- label handlers, two contacts with an address -------- *)
\* As Init, with an address on both contacts.
BothInit ==
  /\ env \in Envs
  /\ clock = 0
  /\ listings = [id \in {LId(1)} |-> OpenListing]
  /\ contacts = [c \in ContactIds |-> FullContact]
  /\ assoc = {}
  /\ files = {}
  /\ rm = {}
  /\ req = [r \in ReqIds |-> IdleReq]

BothSpec == BothInit /\ [][NextSeq]_vars

(* ------------------- mapTrackingToProperties alone -------------------- *)
\* Tracking results: any status, no last event or one with or without a code
\* and a time, with or without an expected delivery date.
TrackingResults ==
  {[status |-> st, lastEvent |-> ev, eta |-> eta] :
     st \in {"", "Created", "Label Printed", "In Transit", "Delivered", "delivered"},
     ev \in {NoProps} \cup
            {[code |-> c, description |-> "Item update", location |-> "Leeds MC", time |-> tm] :
               c \in {"", "EVK"},
               tm \in {"", "2024-01-01T00:00:00Z", "2024-01-02T08:30:00Z"}},
     eta \in {"", "2024-01-03"}}

\* The function is applied to a tracking result: invocation 1 holds the
\* argument in p and the value in update; its body then holds what lines
\* 430-431 make of that update for the contacts.
MapInit ==
  /\ env = BaseEnv
  /\ clock = 0
  /\ listings = [id \in {LId(1)} |-> OpenListing]
  /\ contacts = [c \in ContactIds |-> FullContact]
  /\ assoc = {}
  /\ files = {}
  /\ rm = {}
  /\ \E t \in TrackingResults :
       req = [r \in ReqIds |-> IF r = 1 THEN [IdleReq EXCEPT !.kind = "map", !.pc = "apply", !.p = t]
                               ELSE IdleReq]

MapApply(r) ==
  /\ req[r].kind = "map" /\ req[r].pc = "apply"
  /\ req' = [req EXCEPT ![r] =
       [@ EXCEPT !.pc = "done", !.update = mapTrackingToProperties(req[r].p)]]
  /\ UNCHANGED <<env, clock, listings, contacts, assoc, files, rm>>

MapNext == MapApply(1)

MapSpec == MapInit /\ [][MapNext]_vars

\* contactUpdate is built from the update.
MirrorApply(r) ==
  /\ req[r].kind = "map" /\ req[r].pc = "done" /\ req[r].body = NoBody
  /\ req' = [req EXCEPT ![r] =
       [@ EXCEPT !.body = [type |-> "props", props |-> ContactUpdate(req[r].update)]]]
  /\ UNCHANGED <<env, clock, listings, contacts, assoc, files, rm>>

\* The reconciler's mirroring: /tracking/sync runs as above, and the making of
\* contactUpdate applied to the update of any tracking result.
MirrorNext == SyncNext \/ MapNext \/ MirrorApply(1)

MirrorSpec == (SyncInit \/ MapInit) /\ [][MirrorNext]_vars

(* ---------------------- a CRM with many records ----------------------- *)
\* A CRM with more shipment records awaiting delivery than one search answers.
NumRecords == 101

BulkListings == [id \in {LId(n) : n \in 1..NumRecords} |-> FulfilledListing]

BulkInit ==
  /\ env \in {e \in SyncEnvs : e.INBOUND_SECRET = "" /\ e.MOCK_MODE = "true"}
  /\ clock = 0
  /\ listings = BulkListings
  /\ contacts = [c \in ContactIds |-> FullContact]
  /\ assoc = {<<LId(1), c>> : c \in ContactIds}
  /\ files = {}
  /\ rm = {}
  /\ req = [r \in ReqIds |-> IdleReq]

\* One /tracking/sync request, and nothing else.
BulkNext == SyncStarts(1) \/ SyncSteps(1)

BulkSpec == BulkInit /\ [][BulkNext]_vars

(* ======================== the properties checked ====================== *)
Created(r) == {s \in rm : s.by = r}
IsCreate(r) == req[r].kind = "create"
IsFromContact(r) == req[r].kind = "fromContact"
Fetched(r) == req[r].p # NoProps
\* /labels/create read a record that already had a carrier shipment number.
ReadFulfilled(r) ==
  IsCreate(r) /\ Fetched(r) /\ req[r].p.rmg_shipment_number # ""
\* /labels/create read a record without one.
ReadOpen(r) ==
  IsCreate(r) /\ Fetched(r) /\ req[r].p.rmg_shipment_number = ""
Reads == {"crm.get.contact", "crm.get.listing", "crm.search", "crm.get.associations"}
IsSideEffect(e) == e \notin Reads
SideEffects(r) == SelectSeq(req[r].effects, IsSideEffect)
Did(r, e) == \E k \in 1..Len(req[r].effects) : req[r].effects[k] = e

\* C1: a /labels/create invocation that fetched a record with a
\* carrier shipment number has finished with status 200 having made no call but
\* the read (no carrier call, no CRM write), and, the portal identifier being
\* always set (it has a default), its response is the "already created" page
\* that leads back to the record; the page carries neither the tracking
\* number nor the label URL.
C1_ShortCircuit ==
  \A r \in ReqIds : ReadFulfilled(r) =>
    /\ req[r].pc = "done" /\ req[r].status = 200
    /\ req[r].effects = <<"crm.get.listing">>
    /\ Created(r) = {}
    /\ req[r].body = [type |-> "html", text |-> "Shipment already created.",
                      location |-> "https://app.hubspot.com/contacts/"
                                   \o (IF env.HUBSPOT_PORTAL_ID = "" THEN "47987553"
                                       ELSE env.HUBSPOT_PORTAL_ID)
                                   \o "/record/LISTINGS/" \o req[r].listingId]

C1_Witness ==
  \E r \in ReqIds : ReadFulfilled(r) /\ req[r].status = 200
                    /\ req[r].p.tracking_number = "TN-OLD"

\* C1 with the response the specification describes: the response of such an
\* invocation returns the record's tracking number and label URL.
C1_Claimed ==
  \A r \in ReqIds : ReadFulfilled(r) =>
    /\ req[r].effects = <<"crm.get.listing">>
    /\ Created(r) = {}
    /\ "trackingNumber" \in DOMAIN req[r].body
    /\ req[r].body.trackingNumber = req[r].p.tracking_number
    /\ req[r].body.labelUrl = req[r].p.label_url

\* A label invocation on shipment record id has completed successfully.
Succeeded(r, id) ==
  /\ req[r].kind \in {"create", "fromContact"}
  /\ req[r].listingId = id /\ req[r].status = 200

\* C2: when invocations do not overlap, once a label invocation on a shipment
\* record has completed successfully the record has a carrier shipment number
\* and every later /labels/create on it short-circuits: it never calls
\* rmCreateShipment.
C2_Idempotent ==
  \A a, b \in ReqIds :
    (a < b /\ IsCreate(b) /\ req[b].listingId # "" /\ Succeeded(a, req[b].listingId)) =>
      /\ listings[req[b].listingId].rmg_shipment_number # ""
      /\ Created(b) = {}
      /\ req[b].pc \in {"getListing", "done"}
      /\ Fetched(b) => ReadFulfilled(b) /\ req[b].status = 200

C2_Witness ==
  \E a, b \in ReqIds :
    /\ a < b /\ IsCreate(a) /\ IsCreate(b) /\ req[a].listingId = req[b].listingId
    /\ req[a].status = 200 /\ Created(a) # {}
    /\ req[b].status = 200 /\ ReadFulfilled(b)
    /\ Cardinality({s \in rm : s.listingId = req[a].listingId}) = 1

\* C3: nothing re-checks the record after the read.  Every /labels/create that
\* read the record without a carrier shipment number and completed
\* successfully has created a shipment of its own and patched the record,
\* also when another invocation did the same in between; so two invocations
\* that both read before either patched leave two shipments for one record.
C3_NoLock ==
  \A r \in ReqIds : (ReadOpen(r) /\ req[r].status = 200) =>
    /\ Cardinality(Created(r)) = 1
    /\ Did(r, "crm.patch.listing")

C3_Witness ==
  \E a, b \in ReqIds :
    /\ a # b /\ ReadOpen(a) /\ ReadOpen(b) /\ req[a].listingId = req[b].listingId
    /\ ~Did(a, "crm.patch.listing") /\ ~Did(b, "crm.patch.listing")
    /\ Created(a) # {} /\ Created(b) # {}
    /\ \E s \in Created(a), t \in Created(b) :
         ~s.mock /\ ~t.mock /\ s.shipmentNumber # t.shipmentNumber

\* C4: a /labels/create-from-contact invocation that fetched a contact without
\* an address line or without a postal code has finished with status 400 having
\* made no call but the read.
C4_MissingAddress ==
  \A r \in ReqIds :
    (IsFromContact(r) /\ Fetched(r) /\ (req[r].p.address = "" \/ req[r].p.zip = "")) =>
      /\ req[r].pc = "done" /\ req[r].status = 400
      /\ req[r].effects = <<"crm.get.contact">>
      /\ req[r].listingId = ""
      /\ Created(r) = {}

C4_Witness ==
  \E r \in ReqIds :
    /\ IsFromContact(r) /\ Fetched(r) /\ req[r].p.address # "" /\ req[r].p.zip = ""
    /\ req[r].status = 400

\* The carrier calls of rmCreateShipment and rmGetLabelPDF.
CarrierCalls == <<"rm.token", "rm.create", "rm.label">>

\* C5: in real mode the side effects of a successful
\* /labels/create-from-contact are, in this order, trigger patch, record
\* creation, association, carrier authentication, shipment creation, label
\* retrieval, file upload, shipment patch, contact patch, and those of a
\* successful /labels/create that did not short-circuit are the same from the
\* authentication on, without the contact patch; in simulation mode the three
\* carrier calls are not made and the others keep their order.
C5_Order ==
  \A r \in ReqIds : req[r].status = 200 =>
    LET carrier == IF env.MOCK_MODE \in {"true", "TRUE"} THEN <<>> ELSE CarrierCalls IN
    /\ IsFromContact(r) =>
         SideEffects(r) = <<"crm.patch.trigger", "crm.create.listing", "crm.associate">>
                          \o carrier
                          \o <<"crm.upload", "crm.patch.listing", "crm.patch.contact">>
    /\ ReadOpen(r) =>
         SideEffects(r) = carrier \o <<"crm.upload", "crm.patch.listing">>

C5_Witness ==
  \E r \in ReqIds :
    /\ IsFromContact(r) /\ req[r].status = 200 /\ env.MOCK_MODE = ""
    /\ Len(SideEffects(r)) = 9

\* C5 for every mode: every successful invocation makes the carrier calls.
C5_Claimed ==
  \A r \in ReqIds : req[r].status = 200 =>
    /\ IsFromContact(r) =>
         SideEffects(r) = <<"crm.patch.trigger", "crm.create.listing", "crm.associate">>
                          \o CarrierCalls
                          \o <<"crm.upload", "crm.patch.listing", "crm.patch.contact">>
    /\ ReadOpen(r) =>
         SideEffects(r) = CarrierCalls \o <<"crm.upload", "crm.patch.listing">>

\* The calls of a label invocation that runs to its end, in order.
AllCalls(r) ==
  LET carrier == IF env.MOCK_MODE \in {"true", "TRUE"} THEN <<>> ELSE CarrierCalls IN
  IF IsFromContact(r)
  THEN <<"crm.get.contact", "crm.patch.trigger", "crm.create.listing", "crm.associate">>
       \o carrier \o <<"crm.upload", "crm.patch.listing", "crm.patch.contact">>
  ELSE <<"crm.get.listing">> \o carrier \o <<"crm.upload", "crm.patch.listing">>

\* An outbound call of label invocation r has failed.
StepFailed(r) ==
  /\ req[r].kind \in {"create", "fromContact"}
  /\ req[r].status = 500 /\ env.HUBSPOT_TOKEN # ""

\* What the completed calls of r committed is there.
InPlace(r) ==
  /\ Did(r, "crm.patch.trigger") => contacts[req[r].id].abc_create_label_now = "true"
  /\ Did(r, "crm.create.listing") => req[r].listingId \in DOMAIN listings
  /\ Did(r, "crm.associate") => <<req[r].listingId, req[r].id>> \in assoc
  /\ Did(r, "rm.create") => \E s \in Created(r) : ~s.mock
  /\ Did(r, "crm.upload") =>
       ("https://files.example/" \o ToString(r) \o "/" \o req[r].filename) \in files
  /\ Did(r, "crm.patch.listing") =>
       listings[req[r].listingId].rmg_shipment_number # ""

C6_Aborted ==
  \A r \in ReqIds : StepFailed(r) =>
    /\ req[r].pc = "done"
    /\ Len(req[r].effects) < Len(AllCalls(r))
    /\ req[r].effects = SubSeq(AllCalls(r), 1, Len(req[r].effects))
    /\ InPlace(r)

C6_Step ==
  \A r \in ReqIds :
    /\ StepFailed(r) => req'[r] = req[r]
    /\ (req[r].status = 0 /\ req'[r].status = 500) =>
         UNCHANGED <<listings, contacts, assoc, files, rm>>

\* C6: when an outbound call of a label handler fails, the handler responds
\* 500 and is over: the failing step changes nothing, the calls made so far
\* are a proper prefix of the handler's calls, what they committed stays in
\* place, and the invocation takes no further step.
C6_FailureAborts == []C6_Aborted /\ [][C6_Step]_vars

C6_Witness ==
  \E r \in ReqIds :
    /\ IsFromContact(r) /\ StepFailed(r) /\ req[r].body.error = "label"
    /\ Len(req[r].effects) = 6 /\ InPlace(r)

\* The status of the shipment record of r before r patches it.
PreviousStatus(r) == IF IsCreate(r) THEN req[r].p.shipment_status ELSE "Created"

C7_Step ==
  \A r \in ReqIds :
    (/\ req[r].kind \in {"create", "fromContact"}
     /\ req[r].status = 0 /\ req'[r].status = 500
     /\ Created(r) # {} /\ ~Did(r, "crm.patch.listing")) =>
      LET L == listings'[req[r].listingId] IN
      /\ \E s \in rm' : s.by = r /\ s.shipmentNumber # ""
      /\ L.rmg_shipment_number = ""
      /\ L.tracking_number = ""
      /\ L.tracking_url = "" /\ L.label_url = ""
      /\ L.shipment_status = PreviousStatus(r)

C8_Step ==
  \A r \in ReqIds :
    (IsCreate(r) /\ req[r].pc = "patchListing" /\ req'[r].status = 200) =>
      LET L == listings'[req[r].listingId] IN
      /\ ~Did(r, "crm.patch.listing")
      /\ \E s \in rm :
           /\ s.by = r /\ s.shipmentNumber # "" /\ s.trackingNumber # ""
           /\ L.rmg_shipment_number = s.shipmentNumber
           /\ L.tracking_number = s.trackingNumber
           /\ L.tracking_url =
                "https://www.royalmail.com/track-your-item#/tracking-results/"
                \o s.trackingNumber
      /\ L.label_url = req[r].labelUrl
      /\ L.label_url \in files \cup {""}
      /\ L.shipment_status = "Label Printed"

\* C8: the step that completes a /labels/create invocation that did not
\* short-circuit is its one patch of the shipment record, after which the
\* record holds the shipment number and the tracking number its
\* rmCreateShipment returned, the tracking URL of that tracking number, the
\* label URL its upload returned and the status "Label Printed".
C8_Patched == [][C8_Step]_vars

C8_Witness ==
  \E r \in ReqIds :
    /\ ReadOpen(r) /\ req[r].status = 200
    /\ listings[req[r].listingId].rmg_shipment_number = req[r].shipmentNumber
    /\ listings[req[r].listingId].label_url \in files
    /\ listings[req[r].listingId].shipment_status = "Label Printed"

C9_Step ==
  \A r \in ReqIds :
    (IsFromContact(r) /\ req[r].pc = "patchContact" /\ req'[r].status = 200) =>
      LET L == listings'[req[r].listingId]
          c == contacts'[req[r].id]
      IN
      /\ req[r].listingId \notin {LId(1)}
      /\ L.tracking_number # ""
      /\ c.abc_tracking_number = L.tracking_number
      /\ c.abc_shipment_status = "Label Printed"
      /\ L.shipment_status = "Label Printed"
      /\ <<req[r].listingId, req[r].id>> \in assoc'

C10_Claimed ==
  \A a, b \in ReqIds :
    (/\ a < b /\ IsFromContact(a) /\ IsFromContact(b) /\ req[a].id = req[b].id
     /\ req[a].status = 200 /\ req[b].status = 200) =>
      /\ req[a].listingId = req[b].listingId
      /\ Cardinality(Created(a) \cup Created(b)) <= 1

IsSync(r) == req[r].kind = "sync"

\* C11: with an inbound secret configured, a /tracking/sync request whose
\* x-inbound-secret header is absent or is not the secret is answered 401
\* { ok: false, error: "unauthorized" } at once, without any outbound call (no
\* CRM query, no carrier call, no CRM write); with no secret configured no
\* request is answered 401, whatever its header.
C11_Unauthorized ==
  \A r \in ReqIds : IsSync(r) =>
    /\ (env.INBOUND_SECRET # "" /\ req[r].id # env.INBOUND_SECRET) =>
         /\ req[r].pc = "done" /\ req[r].status = 401
         /\ req[r].body = [type |-> "json", ok |-> FALSE, error |-> "unauthorized"]
         /\ req[r].effects = <<>>
         /\ req[r].results = <<>> /\ req[r].pending = {}
    /\ (env.INBOUND_SECRET = "" \/ req[r].id = env.INBOUND_SECRET) => req[r].status # 401

C11_Witness ==
  \E a, b \in ReqIds :
    /\ IsSync(a) /\ IsSync(b) /\ env.INBOUND_SECRET = "s3cret"
    /\ req[a].id = "" /\ req[a].status = 401
    /\ req[b].id = "guess" /\ req[b].status = 401
    /\ env.MOCK_TRACKING_STATUS # "" /\ listings[LId(2)] = FulfilledListing

\* The search of sync invocation r has answered.
Searched(r) == IsSync(r) /\ Did(r, "crm.search")

\* Record k of the search results of r has no tracking number, or the tracking
\* lookup has no data for it.
Skippable(r, k) ==
  \/ req[r].results[k].tracking_number = ""
  \/ rmGetTracking(req[r].results[k].tracking_number, clock) = NoProps

\* The records of the search results the loop of r has left behind or is at.
Visited(r) == {k \in 1..Len(req[r].results) : k <= req[r].i}

C12_Skipped ==
  \A r \in ReqIds : Searched(r) =>
    /\ req[r].updated <= Cardinality({k \in Visited(r) : ~Skippable(r, k)})
    /\ req[r].pc # "done" =>
          req[r].i \in 1..Len(req[r].results) /\ ~Skippable(r, req[r].i)
    /\ req[r].status = 500 =>
          req[r].i \in 1..Len(req[r].results) /\ ~Skippable(r, req[r].i)
    /\ req[r].status = 200 => req[r].i = Len(req[r].results) + 1
    /\ (\A k \in 1..Len(req[r].results) : Skippable(r, k)) =>
          /\ req[r].pc = "done" /\ req[r].status = 200
          /\ req[r].updated = 0 /\ req[r].effects = <<"crm.search">>

C12_Step ==
  \A id \in DOMAIN listings :
    listings'[id] # listings[id] =>
      \E r \in ReqIds :
        /\ Searched(r) /\ req[r].pc = "syncPatch"
        /\ req[r].results[req[r].i].id = id
        /\ ~Skippable(r, req[r].i)

\* C12: in a /tracking/sync run a record of the search results without a
\* tracking number, or without tracking data, is passed over: no step patches
\* it, it is not counted in updated, the loop goes on to the next record, and
\* the run ends in an error only while it is at a record that is not passed
\* over; a run over nothing but such records responds 200 with updated = 0
\* having made no call but the search.
C12_SkipsNotErrors == []C12_Skipped /\ [][C12_Step]_vars

C12_Witness ==
  \E r \in ReqIds :
    /\ Searched(r) /\ req[r].status = 200 /\ Len(req[r].results) = 2
    /\ req[r].results[1].tracking_number = "" /\ ~Skippable(r, 2)
    /\ req[r].updated = 1
    /\ listings[LId(1)] = OpenListing
    /\ listings[LId(2)].shipment_status = "Delivered"

\* What the carrier reports for a tracking number: its status, "" for none.
Reported(trackingNumber) ==
  LET t == rmGetTracking(trackingNumber, clock) IN IF t = NoProps THEN "" ELSE t.status

\* C13: when the one /tracking/sync run of a behaviour has responded ok, every
\* shipment record that was there at the start with a status other than
\* Delivered and Cancelled and with a tracking number for which the carrier
\* reports a status has that status, however many such records there are.
C13_Claimed ==
  \A r \in ReqIds : (IsSync(r) /\ req[r].status = 200) =>
    \A id \in DOMAIN BulkListings :
      (/\ BulkListings[id].shipment_status \notin {"Delivered", "Cancelled"}
       /\ BulkListings[id].tracking_number # ""
       /\ Reported(BulkListings[id].tracking_number) # "") =>
        listings[id].shipment_status = Reported(BulkListings[id].tracking_number)

\* C14: for every tracking result t, mapTrackingToProperties(t) has
\* delivered_datetime exactly when t.status is "Delivered" and t has a last
\* event with a time, and then it is that time; with any other status the same
\* last event yields no delivered_datetime.
C14_DeliveredDatetime ==
  \A r \in ReqIds : (req[r].kind = "map" /\ req[r].pc = "done") =>
    LET t == req[r].p
        out == req[r].update
        timed == t.lastEvent # NoProps /\ t.lastEvent.time # ""
    IN /\ ("delivered_datetime" \in DOMAIN out) <=> (t.status = "Delivered" /\ timed)
       /\ "delivered_datetime" \in DOMAIN out => out.delivered_datetime = t.lastEvent.time
       /\ timed => out.last_event_time = t.lastEvent.time

C14_Witness ==
  \E r \in ReqIds :
    /\ req[r].kind = "map" /\ req[r].pc = "done"
    /\ req[r].p.status = "Delivered"
    /\ req[r].p.lastEvent # NoProps /\ req[r].p.lastEvent.time = "2024-01-01T00:00:00Z"
    /\ "delivered_datetime" \in DOMAIN req[r].update
    /\ req[r].update.delivered_datetime = "2024-01-01T00:00:00Z"

\* The place of a status in the lifecycle, 0 for a status outside it.
LifecycleRank(status) ==
  CASE status = "Created" -> 1
    [] status = "Label Printed" -> 2
    [] status = "In Transit" -> 3
    [] status = "Delivered" -> 4
    [] OTHER -> 0

\* A label handler's patch of shipment record id answers in this step.
LabelPatches(id) ==
  \E r \in ReqIds :
    /\ req[r].kind \in {"create", "fromContact"} /\ req[r].listingId = id
    /\ req[r].pc = "patchListing" /\ req'[r].pc # "patchListing"

C15_Step ==
  \A id \in DOMAIN listings :
    LET old == listings[id].shipment_status
        new == listings'[id].shipment_status
    IN new # old =>
         /\ old \notin {"Delivered", "Cancelled"}
         /\ new = "Cancelled" \/ (LifecycleRank(old) > 0 /\ LifecycleRank(old) < LifecycleRank(new))
         /\ LabelPatches(id) => (old = "Created" /\ new = "Label Printed")

\* C15: every change this service makes to the status of a shipment record
\* moves it forward in Created, Label Printed, In Transit, Delivered, or to
\* Cancelled; a label handler only moves a record from Created to Label
\* Printed; the status of a record that is Delivered or Cancelled is never
\* changed.
C15_Claimed == [][C15_Step]_vars

\* The value of a sender field: the stored one when set, else the default.
StoredOr(stored, default) == IF stored # "" THEN stored ELSE default

\* The requests POST /shipping/v2/domestic of the /labels/create invocations.
CreateRequests == {s \in rm : ~s.mock /\ IsCreate(s.by)}

Digits == {"0", "1", "2", "3", "4", "5", "6", "7", "8", "9"}

\* "RM" followed by exactly ten decimal digits.
IsMockFormat(tn) ==
  /\ Len(tn) = 12
  /\ SubSeq(tn, 1, 2) = "RM"
  /\ \A k \in 3..12 : SubSeq(tn, k, k) \in Digits

\* A label invocation in simulation mode whose rmCreateShipment has returned.
MockLabelled(r) ==
  /\ req[r].kind \in {"create", "fromContact"}
  /\ env.MOCK_MODE \in {"true", "TRUE"}
  /\ req[r].trackingNumber # ""

\* C17: in simulation mode every tracking number rmCreateShipment returns is
\* "RM" followed by exactly ten decimal digits, it is the one rmCreateShipment
\* made for that invocation, and a successful invocation has written it to
\* its shipment record.  (The numbers of two invocations are drawn
\* independently: nothing makes them differ.)
C17_MockFormat ==
  \A r \in ReqIds : MockLabelled(r) =>
    /\ IsMockFormat(req[r].trackingNumber)
    /\ \E s \in Created(r) : s.mock /\ s.trackingNumber = req[r].trackingNumber
    /\ req[r].status = 200 =>
         listings[req[r].listingId].tracking_number = req[r].trackingNumber

C17_Witness ==
  \E a, b \in ReqIds :
    /\ a < b /\ IsFromContact(a) /\ IsFromContact(b) /\ req[a].id # req[b].id
    /\ MockLabelled(a) /\ MockLabelled(b)
    /\ req[a].status = 200 /\ req[b].status = 200
    /\ req[a].trackingNumber = "RM0000000007"
    /\ req[b].trackingNumber = "RM1234567890"

\* C17 with distinctness: in simulation mode two successful
\* /labels/create-from-contact invocations, one after the other, for two
\* different contacts have two distinct tracking numbers, each "RM" followed
\* by exactly ten decimal digits.
C17_Claimed ==
  \A a, b \in ReqIds :
    (/\ a < b /\ IsFromContact(a) /\ IsFromContact(b) /\ req[a].id # req[b].id
     /\ MockLabelled(a) /\ MockLabelled(b)
     /\ req[a].status = 200 /\ req[b].status = 200) =>
      /\ IsMockFormat(req[a].trackingNumber) /\ IsMockFormat(req[b].trackingNumber)
      /\ req[a].trackingNumber # req[b].trackingNumber

\* How many times invocation r has completed call e.
Count(r, e) == Cardinality({k \in 1..Len(req[r].effects) : req[r].effects[k] = e})

\* The records of the search results of r that are not passed over.
Handled(r) == {k \in 1..Len(req[r].results) : ~Skippable(r, k)}

\* C18: a /tracking/sync response with status 200 is { ok: true, scanned,
\* updated } with scanned the number of records the search returned and
\* updated the number of those that were not passed over, for each of which
\* the shipment patch, the association lookup and every contact patch have
\* completed; so 0 <= updated <= scanned.
C18_Counts ==
  \A r \in ReqIds : (IsSync(r) /\ req[r].status = 200) =>
    /\ req[r].body.ok
    /\ req[r].body.scanned = Len(req[r].results)
    /\ req[r].body.updated = Cardinality(Handled(r))
    /\ req[r].body.updated = Count(r, "crm.patch.listing")
    /\ req[r].body.updated = Count(r, "crm.get.associations")
    /\ Count(r, "crm.patch.contacts")
         = Cardinality({k \in Handled(r) : getAssociations(req[r].results[k].id) # {}})
    /\ req[r].pending = {}
    /\ \A k \in Handled(r) : \A c \in getAssociations(req[r].results[k].id) :
          contacts[c].abc_shipment_status = Reported(req[r].results[k].tracking_number)
    /\ 0 <= req[r].body.updated /\ req[r].body.updated <= req[r].body.scanned

C18_Witness ==
  \E r \in ReqIds :
    /\ IsSync(r) /\ req[r].status = 200
    /\ req[r].body.scanned = 2 /\ req[r].body.updated = 2
    /\ Count(r, "crm.patch.contacts") = 1
    /\ \A c \in ContactIds : contacts[c].abc_shipment_status = "In Transit"

\* The input of label invocation r is missing or invalid: no identifier, or a
\* contact without address line or postcode.
BadInput(r) ==
  \/ req[r].id = ""
  \/ IsFromContact(r) /\ Fetched(r) /\ (req[r].p.address = "" \/ req[r].p.zip = "")

\* C19: every response of a label handler with an error status is the JSON
\* object { ok: false, error }, with status 400 when the input is missing or
\* invalid and status 500 otherwise.
C19_Claimed ==
  \A r \in ReqIds : (req[r].kind \in {"create", "fromContact"} /\ req[r].status >= 400) =>
    /\ req[r].status \in {400, 500}
    /\ req[r].status = 400 <=> (BadInput(r) /\ env.HUBSPOT_TOKEN # "")
    /\ req[r].body.type = "json"
    /\ DOMAIN req[r].body = {"type", "ok", "error"}
    /\ req[r].body.ok = FALSE

\* The calls of a /tracking/sync run come in this order: the search, then per
\* record the shipment patch, the association lookup, the contact patches.
C20_Order ==
  \A r \in ReqIds : IsSync(r) =>
    /\ \A k \in 1..Len(req[r].effects) :
         LET e == req[r].effects[k]
             before == IF k = 1 THEN "" ELSE req[r].effects[k - 1]
         IN /\ e = "crm.search" <=> k = 1
            /\ e = "crm.patch.listing" =>
                 before \in {"crm.search", "crm.get.associations", "crm.patch.contacts"}
            /\ e = "crm.get.associations" => before = "crm.patch.listing"
            /\ e = "crm.patch.contacts" => before = "crm.get.associations"
    /\ req[r].pending # {} =>
         /\ req[r].pending \subseteq getAssociations(req[r].listingId)
         /\ "shipment_status" \in DOMAIN req[r].update
         /\ req[r].update.shipment_status # ""

\* What is made of an update for the contacts: the status alone, and nothing
\* when the update has no status.
C20_StatusOnly ==
  \A r \in ReqIds : (req[r].kind = "map" /\ req[r].body # NoBody) =>
    LET props == req[r].body.props IN
    /\ props = NoProps <=> req[r].p.status = ""
    /\ req[r].p.status # "" => props = [abc_shipment_status |-> req[r].p.status]

C20_Step ==
  \A c \in DOMAIN contacts :
    contacts'[c] # contacts[c] =>
      \E r \in ReqIds :
        /\ IsSync(r) /\ c \in req[r].pending /\ c \notin req'[r].pending
        /\ <<req[r].listingId, c>> \in assoc
        /\ req[r].effects[Len(req[r].effects)] = "crm.get.associations"
        /\ listings[req[r].listingId].shipment_status = req[r].update.shipment_status
        /\ contacts'[c] =
             [contacts[c] EXCEPT !.abc_shipment_status = req[r].update.shipment_status]

\* C20: in a /tracking/sync run each record with a non-empty update has its
\* shipment record patched first, then its contacts looked up, then each
\* associated contact patched; a contact patch changes nothing but
\* abc_shipment_status, to the status just written to the shipment record;
\* and from an update without a status no contact patch is made.
C20_Mirror == [](C20_Order /\ C20_StatusOnly) /\ [][C20_Step]_vars

C20_Witness ==
  \E r \in ReqIds :
    /\ IsSync(r) /\ req[r].status = 200 /\ Did(r, "crm.patch.contacts")
    /\ listings[LId(2)].shipment_status = "Delivered"
    /\ \A c \in ContactIds :
         contacts[c] = [FullContact EXCEPT !.abc_shipment_status = "Delivered"]

\* The shipment record of sync invocation r holds every value of its update.
AlreadyEqual(r) ==
  \A k \in DOMAIN req[r].update \cap DOMAIN listings[req[r].listingId] :
    listings[req[r].listingId][k] = req[r].update[k]

C21_Step ==
  \A r \in ReqIds :
    (req[r].pc # "syncPatch" /\ req'[r].pc = "syncPatch") => (~AlreadyEqual(r))'

\* C21: the reconciler patches only changed fields: when a /tracking/sync run
\* sends the patch of a shipment record, at least one field of the record
\* differs from what the carrier reports for it, so that a record already in
\* the reported state is neither patched nor counted.
C21_Claimed == [][C21_Step]_vars

\* The records of the search results of r that come before the one the loop
\* is at and were not passed over.
Before(r) == {k \in Handled(r) : k < req[r].i}

C22_InOrder ==
  \A r \in ReqIds : Searched(r) =>
    /\ req[r].pc = "syncPatch" =>
         /\ req[r].listingId = req[r].results[req[r].i].id
         /\ Count(r, "crm.patch.listing") = Cardinality(Before(r))
         /\ Count(r, "crm.get.associations") = Cardinality(Before(r))
         /\ req[r].updated = Cardinality(Before(r))
         /\ req[r].pending = {}
    /\ req[r].pc = "syncAssoc" =>
         /\ Count(r, "crm.patch.listing") = Cardinality(Before(r)) + 1
         /\ Count(r, "crm.get.associations") = Cardinality(Before(r))
         /\ req[r].pending = {}
    /\ req[r].pc = "syncContacts" =>
         /\ Count(r, "crm.patch.listing") = Cardinality(Before(r)) + 1
         /\ Count(r, "crm.get.associations") = Cardinality(Before(r)) + 1
         /\ req[r].pending # {}
    /\ req[r].pending # {} => req[r].pc = "syncContacts" \/ req[r].status = 500

C22_Step ==
  /\ \A r \in ReqIds : Searched(r) =>
       /\ req'[r].i >= req[r].i
       /\ req'[r].i > req[r].i =>
            /\ req[r].pc \in {"syncAssoc", "syncContacts"}
            /\ req'[r].pending = {}
  /\ \A id \in DOMAIN listings :
       listings'[id] # listings[id] =>
         \E r \in ReqIds : /\ Searched(r) /\ req[r].pc = "syncPatch"
                            /\ req[r].results[req[r].i].id = id

\* C22: within one /tracking/sync run the records are handled one at a time in
\* the order of the search results: while the shipment patch of a record is
\* under way, the shipment patch, the association lookup and the contact
\* patches of every earlier record that was not passed over have completed and
\* none of a later record has started; the loop only moves forward, and only
\* from a record whose calls have all answered.  Runs that overlap are not
\* kept apart: both can patch the same record.
C22_OneAtATime == []C22_InOrder /\ [][C22_Step]_vars

\* Two overlapping runs have both patched the same record, the second of two.
C22_Witness ==
  \E a, b \in ReqIds :
    /\ a # b /\ Searched(a) /\ Searched(b)
    /\ req[a].pc = "syncAssoc" /\ req[b].pc = "syncAssoc"
    /\ req[a].listingId = LId(2) /\ req[b].listingId = LId(2)
    /\ Count(a, "crm.patch.listing") = 2 /\ Count(b, "crm.patch.listing") = 2

\* Invocation r holds a placeholder label.
HasMockLabel(r) == "title" \in DOMAIN req[r].labelBuffer

\* C23: in simulation mode the tracking number on the placeholder label of a
\* shipment is the tracking number that the simulated shipment creation
\* returned for it, which is the one written to the shipment record, and the
\* label carries the recipient's postcode.
C23_Claimed ==
  \A r \in ReqIds : HasMockLabel(r) =>
    /\ req[r].labelBuffer.tracking = req[r].trackingNumber
    /\ req[r].labelBuffer.postcode = req[r].recipient.postcode
    /\ Did(r, "crm.patch.listing") =>
         req[r].labelBuffer.tracking = listings[req[r].listingId].tracking_number

\* The carrier shipments made for shipment record id.
ShipmentsFor(id) == {s \in rm : s.listingId = id}

\* /labels/create invocation a made a carrier shipment and then failed, and
\* /labels/create invocation b came later for the same record, which no other
\* invocation has patched.
RetriedBy(a, b) ==
  /\ a < b /\ IsCreate(a) /\ IsCreate(b)
  /\ req[a].listingId # "" /\ req[b].listingId = req[a].listingId
  /\ req[a].status = 500 /\ Created(a) # {}
  /\ \A c \in ReqIds \ {a, b} :
       ~(req[c].listingId = req[a].listingId /\ Did(c, "crm.patch.listing"))

\* C24: when a /labels/create invocation has failed after its carrier shipment
\* was made (at the label retrieval, the file upload or the shipment patch),
\* a later /labels/create invocation for the same record finds no carrier
\* shipment number on it, is not answered "already created", and goes on to
\* shipment creation; once that has succeeded the carrier holds two shipments
\* for the record.
C24_RetryDuplicates ==
  \A a, b \in ReqIds : (RetriedBy(a, b) /\ Fetched(b)) =>
    /\ ReadOpen(b)
    /\ req[b].body # AlreadyCreatedBody(req[b].listingId, req[b].p)
    /\ req[b].sender # NoProps
    /\ req[b].pc = "done" => (req[b].status = 500 \/ Did(b, "crm.patch.listing"))
    /\ Created(b) # {} => Cardinality(ShipmentsFor(req[a].listingId)) >= 2
    /\ req[b].status = 200 =>
         /\ Cardinality(ShipmentsFor(req[a].listingId)) >= 2
         /\ \A s \in Created(a) :
              s.shipmentNumber # listings[req[a].listingId].rmg_shipment_number

C24_Witness ==
  \E a, b \in ReqIds :
    /\ RetriedBy(a, b) /\ req[a].body.error = "patch listing"
    /\ req[b].status = 200
    /\ Cardinality({s \in ShipmentsFor(LId(1)) : ~s.mock}) = 2

\* Sync invocation r has failed within its loop.
FailedInLoop(r) == Searched(r) /\ req[r].status = 500

C25_Kept ==
  \A r \in ReqIds : FailedInLoop(r) =>
    /\ req[r].pc = "done"
    /\ DOMAIN req[r].body = {"type", "ok", "error"} /\ ~req[r].body.ok
    /\ req[r].i \in Handled(r)
    /\ Count(r, "crm.patch.listing") \in {Cardinality(Before(r)), Cardinality(Before(r)) + 1}
    /\ Count(r, "crm.patch.contacts")
         = Cardinality({k \in Before(r) : getAssociations(req[r].results[k].id) # {}})
    /\ \A k \in Before(r) :
         /\ listings[req[r].results[k].id].shipment_status
              = Reported(req[r].results[k].tracking_number)
         /\ \A c \in getAssociations(req[r].results[k].id) :
              contacts[c].abc_shipment_status = Reported(req[r].results[k].tracking_number)
    /\ Count(r, "crm.patch.listing") = Cardinality(Before(r)) + 1 =>
         listings[req[r].results[req[r].i].id].shipment_status
           = Reported(req[r].results[req[r].i].tracking_number)

C25_Step ==
  /\ \A r \in ReqIds :
       /\ FailedInLoop(r) =>
            /\ req'[r] = [req[r] EXCEPT !.pending = req'[r].pending]
            /\ req'[r].pending \subseteq req[r].pending
       /\ (Searched(r) /\ req[r].pc \in {"syncPatch", "syncAssoc"}
             /\ req'[r] # req[r] /\ req'[r].effects = req[r].effects) =>
            /\ req'[r].status = 500 /\ req'[r].pc = "done" /\ req'[r].i = req[r].i
            /\ UNCHANGED <<listings, contacts>>
       /\ (Searched(r) /\ req[r].status = 0 /\ req'[r].status = 500) =>
            UNCHANGED <<listings, contacts>>
  /\ \A id \in DOMAIN listings :
       listings'[id] # listings[id] =>
         \E r \in ReqIds : /\ req[r].status = 0 /\ req[r].pc = "syncPatch"
                            /\ req[r].listingId = id

\* C25: when an outbound call of a /tracking/sync run fails at a record (the
\* shipment patch, the association lookup or a contact patch), the failing
\* call changes nothing, the run responds 500 { ok: false, error } without
\* scanned or updated, the patches of the earlier records (and the shipment
\* patch of this record when it had completed) stay in place, and the run
\* looks up and patches no later record.
C25_FailureStops == []C25_Kept /\ [][C25_Step]_vars

C25_Witness ==
  \E r \in ReqIds :
    /\ FailedInLoop(r) /\ req[r].body.error = "associations"
    /\ Len(req[r].results) = 2 /\ req[r].i = 2
    /\ Count(r, "crm.patch.listing") = 2
    /\ \A id \in DOMAIN listings : listings[id].shipment_status = "In Transit"
    /\ \A c \in ContactIds : contacts[c] = FullContact

C26_Refused ==
  \A r \in ReqIds : (req[r].kind # "none" /\ env.HUBSPOT_TOKEN = "") =>
    /\ req[r].pc = "done"
    /\ req[r].effects = <<>> /\ Created(r) = {}
    /\ req[r].p = NoProps /\ req[r].results = <<>> /\ req[r].pending = {}
    /\ IF IsSync(r) /\ env.INBOUND_SECRET # "" /\ req[r].id # env.INBOUND_SECRET
       THEN req[r].status = 401
       ELSE /\ req[r].status = 500
            /\ req[r].body = [type |-> "json", ok |-> FALSE,
                               error |-> "HUBSPOT_TOKEN is required"]

C26_Step == env.HUBSPOT_TOKEN = "" => UNCHANGED <<listings, contacts, assoc, files, rm>>

\* C26: without the CRM access token every invocation of /labels/create,
\* /labels/create-from-contact and /tracking/sync (the latter once it has
\* passed the secret check) responds 500 { ok: false, error: "HUBSPOT_TOKEN is
\* required" } at once, before any outbound call and without any change to
\* the CRM or the carrier, and so does an invocation without listingId or
\* contactId: it gets 500, not 400.
C26_NoToken == []C26_Refused /\ [][C26_Step]_vars

C26_Witness ==
  \E a, b \in ReqIds :
    /\ env.HUBSPOT_TOKEN = "" /\ env.INBOUND_SECRET = "s3cret"
    /\ IsCreate(a) /\ req[a].id = "" /\ req[a].status = 500
    /\ IsSync(b) /\ req[b].id = "s3cret" /\ req[b].status = 500
====
